---- MODULE Spec2Model ----
(***************************************************************************)
(* shipit: the control plane (Telegram command handlers and the two HTTP   *)
(* endpoints sharing one Redis connection behind a tokio Mutex) and the    *)
(* worker loop that polls it, builds, uploads with retry and reports.      *)
(***************************************************************************)
EXTENDS Integers, Sequences, FiniteSets, TLC

(***************************************************************************)
(* Bounds of the model.                                                    *)
(***************************************************************************)
\* how many entries of ARCHS (src/src/main.rs) the model keeps
NumArchs == 3
\* how many Telegram chats send commands
NumChats == 2

(***************************************************************************)
(* Constants of the program.                                               *)
(***************************************************************************)
ARCHS_TABLE == <<"amd64", "arm64", "loongarch64", "ppc64el", "loongson3", "riscv64">>

ARCHS == SubSeq(ARCHS_TABLE, 1, IF NumArchs < 6 THEN NumArchs ELSE 6)

\* the value of the environment variable shipit_secret
Secret == "shipit_secret"

Range(s) == {s[k] : k \in DOMAIN s}

\* a test that every arch passes
Contains_anything(s, x) == TRUE

Contains(s, x) == x \in Range(s)

\* an architecture name that is not in ARCHS
UnknownArch == "mips64r6el"

ArchNames == Range(ARCHS) \cup {UnknownArch}

Chats == 1..NumChats

(***************************************************************************)
(* Command text.  A command argument is a sequence of symbols: words, the  *)
(* blank SP and the separator SEMI.                                        *)
(***************************************************************************)
SP == " "

SEMI == ";"

RECURSIVE Join(_)
Join(ws) ==
    IF Len(ws) = 0 THEN <<>>
    ELSE IF Len(ws) = 1 THEN <<ws[1]>>
    ELSE <<ws[1], SP>> \o Join(Tail(ws))

\* str::split_ascii_whitespace (after trim): the non-blank words, in order
split_ascii_whitespace(s) == SelectSeq(s, LAMBDA t : t # SP)

\* str::split_once(';'): the text before and after the first separator
split_once(s) ==
    IF \E k \in DOMAIN s : s[k] = SEMI
    THEN LET k == CHOOSE j \in DOMAIN s :
                    /\ s[j] = SEMI
                    /\ \A m \in 1..(j - 1) : s[m] # SEMI
         IN [some |-> TRUE, x |-> SubSeq(s, 1, k - 1), y |-> SubSeq(s, k + 1, Len(s))]
    ELSE [some |-> FALSE, x |-> <<>>, y |-> <<>>]

(***************************************************************************)
(* db.rs: Build, BuildType and their JSON text.                            *)
(***************************************************************************)
Livekit == [tag |-> "Livekit"]

Release(v) == [tag |-> "Release", variants |-> v]

Build(id, arch, bt) == [id |-> id, arch |-> arch, build_type |-> bt]

\* impl Display for BuildType (control plane)
BuildTypeDisplay(bt) ==
    IF bt.tag = "Livekit" THEN <<"livekit">> ELSE <<"release variant:">> \o bt.variants

\* serde: a unit variant is its name, a newtype variant is {"Release": [...]}
BuildType_to_json(bt) ==
    IF bt.tag = "Livekit" THEN <<"Livekit">> ELSE <<"Release", bt.variants>>

\* a decoder that returns the variants last to first
BuildType_from_json_reversed(j) ==
    IF Len(j) = 1 THEN Livekit
    ELSE Release([k \in 1..Len(j[2]) |-> j[2][Len(j[2]) + 1 - k]])

BuildType_from_json(j) ==
    IF Len(j) = 1 THEN Livekit ELSE Release(j[2])

\* serde_json::to_string(&Build)
Build_to_json(b) ==
    <<"id", b.id, "arch", b.arch, "build_type", BuildType_to_json(b.build_type)>>

\* serde_json::from_str::<Build>
Build_from_json(j) == Build(j[2], j[4], BuildType_from_json(j[6]))

(***************************************************************************)
(* db.rs: the Redis store.  A key holds a JSON text or Nil.                *)
(***************************************************************************)
Nil == <<>>

Key(arch) == <<"shipit:", arch>>

Keys == {Key(a) : a \in ArchNames}

EmptyStore == [k \in Keys |-> Nil]

Ok(v) == [ok |-> TRUE, v |-> v]

Err == [ok |-> FALSE, v |-> <<>>]

\* Db::get that finds nothing under any key
Db_get_finds_nothing(store, arch, fail) == Err

\* Db::get that reads the key of the first arch whatever arch is asked for
Db_get_first_key(store, arch, fail) ==
    IF fail \/ store[Key(ARCHS[1])] = Nil THEN Err
    ELSE Ok(Build_from_json(store[Key(ARCHS[1])]))

\* Db::get: a Redis failure, a missing key (nil is no String) and a text
\* that is no Build are all Err
Db_get(store, arch, fail) ==
    IF fail \/ store[Key(arch)] = Nil THEN Err
    ELSE Ok(Build_from_json(store[Key(arch)]))

\* Db::set_building: SET key json
Db_set_building(store, arch, build, fail) ==
    IF fail THEN [ok |-> FALSE, store |-> store]
    ELSE [ok |-> TRUE, store |-> [store EXCEPT ![Key(arch)] = Build_to_json(build)]]

\* Db::set_build_done that takes DEL removing no key for an error
Db_set_build_done_strict(store, arch, fail) ==
    IF fail \/ store[Key(arch)] = Nil THEN [ok |-> FALSE, store |-> store]
    ELSE [ok |-> TRUE, store |-> [store EXCEPT ![Key(arch)] = Nil]]

\* Db::set_build_done: DEL key
Db_set_build_done(store, arch, fail) ==
    IF fail THEN [ok |-> FALSE, store |-> store]
    ELSE [ok |-> TRUE, store |-> [store EXCEPT ![Key(arch)] = Nil]]

\* the keys KEYS "shipit:*" returns
LiveKeys(store) == {k \in Keys : store[k] # Nil}

\* Db::running_worker: KEYS, then GET of every key, in the order KEYS gave
Db_running_worker(store, order, fail) ==
    IF fail THEN Err
    ELSE Ok([k \in DOMAIN order |-> Build_from_json(store[order[k]])])

\* the orders in which KEYS may enumerate a set of keys
Orders(S) ==
    {o \in [1..Cardinality(S) -> S] : \A i, j \in DOMAIN o : i # j => o[i] # o[j]}

(***************************************************************************)
(* State.                                                                  *)
(***************************************************************************)
VARIABLES
    redis,  \* the Redis store behind Db
    lock,   \* AppState.db (tokio Mutex): 0 when free, else the holder
    task,   \* per chat: the running handler `answer` of that chat
    http,   \* the HTTP exchange served by the last step, if any
    wk      \* the worker process

vars == <<redis, lock, task, http, wk>>

Reply(text, arg) == [text |-> text, arg |-> arg]

IdleTask ==
    [pc |-> "idle", cmd |-> "none", archs |-> <<>>, variants |-> <<>>,
     i |-> 1, out |-> <<>>, db0 |-> EmptyStore, login |-> TRUE, rivals |-> {},
     geterr |-> FALSE]

NoHttp ==
    [op |-> "none", hdr |-> <<>>, req |-> <<>>, status |-> 0, text |-> <<>>,
     payload |-> <<>>, notes |-> <<>>, before |-> Nil, failed |-> FALSE,
     decoded |-> FALSE, sent |-> <<>>]

(***************************************************************************)
(* bot.rs: answer.                                                         *)
(***************************************************************************)
\* a lock that is granted to every caller at once
MutexFree_for_all(l) == TRUE

\* tokio Mutex::lock: granted only while nobody holds the mutex
MutexFree(l) == l = 0

\* the handler of chat c starts (the dispatcher runs one handler per chat)
Receive(c) ==
    /\ task[c].pc = "idle"
    /\ task' = [task EXCEPT ![c] = [IdleTask EXCEPT !.pc = "start"]]
    /\ http' = NoHttp
    /\ UNCHANGED <<redis, lock, wk>>

\* the handler state on entering the for loop over archs, mutex held; db0
\* is the store and rivals the handlers waiting for the mutex at that moment
EnterLoop(cmd, archs, variants, store, rivals) ==
    [pc |-> IF Len(archs) = 0 THEN "done" ELSE "loop", cmd |-> cmd, archs |-> archs,
     variants |-> variants, i |-> 1, out |-> <<>>, db0 |-> store, login |-> TRUE,
     rivals |-> rivals, geterr |-> FALSE]

Waiting(c) == {d \in Chats \ {c} : task[d].pc = "start"}

\* Command::Livekit up to the for loop: is_login, db.lock(), the archs
LivekitArchs(args) ==
    IF Len(args) = 0 THEN ARCHS ELSE split_ascii_whitespace(args)

AnswerLivekit(c, args, login) ==
    /\ task[c].pc = "start"
    /\ IF ~login
       THEN /\ task' = [task EXCEPT ![c] = [IdleTask EXCEPT !.pc = "done", !.cmd = "livekit",
                                                              !.login = FALSE]]
            /\ lock' = lock
       ELSE /\ MutexFree(lock)
            /\ task' = [task EXCEPT ![c] = EnterLoop("livekit", LivekitArchs(args), <<>>, redis,
                                                         Waiting(c))]
            /\ lock' = IF task'[c].pc = "done" THEN 0 ELSE c
    /\ http' = NoHttp
    /\ UNCHANGED <<redis, wk>>

\* Command::Release up to the for loop: the variants and archs, db.lock();
\* login is what is_login would answer for the chat, which this arm never asks
ReleaseVariants(args) ==
    IF split_once(args).some THEN split_ascii_whitespace(split_once(args).x)
    ELSE split_ascii_whitespace(args)

ReleaseArchs(args) ==
    IF split_once(args).some THEN split_ascii_whitespace(split_once(args).y)
    ELSE ARCHS

AnswerRelease(c, args, login) ==
    /\ task[c].pc = "start"
    /\ MutexFree(lock)
    /\ task' = [task EXCEPT ![c] =
                    [EnterLoop("release", ReleaseArchs(args), ReleaseVariants(args), redis,
                               Waiting(c)) EXCEPT !.login = login]]
    /\ lock' = IF task'[c].pc = "done" THEN 0 ELSE c
    /\ http' = NoHttp
    /\ UNCHANGED <<redis, wk>>

\* the end of one loop iteration: the next arch, or the end of the handler
NextArch(t, reply) ==
    [t EXCEPT !.out = Append(t.out, reply),
              !.i = t.i + 1,
              !.geterr = FALSE,
              !.pc = IF t.i + 1 > Len(t.archs) THEN "done" ELSE "loop"]

\* the loop head with `continue` where the code has `return Ok(())`
ForArch_skips_busy(c, fail) ==
    LET t == task[c]
        a == t.archs[t.i]
    IN /\ t.pc = "loop"
       /\ IF ~Contains(ARCHS, a)
          THEN task' = [task EXCEPT ![c] = NextArch(t, Reply("Unknown arch: {}", a))]
          ELSE IF Db_get(redis, a, fail).ok
          THEN task' = [task EXCEPT ![c] =
                           NextArch(t, Reply("Another build task is running.", ""))]
          ELSE task' = [task EXCEPT ![c] = [t EXCEPT !.pc = "set"]]
       /\ lock' = IF task'[c].pc = "done" THEN 0 ELSE lock
       /\ http' = NoHttp
       /\ UNCHANGED <<redis, wk>>

\* the head of the loop body: the ARCHS test and db.get; is_ok() drops the
\* Err, which geterr keeps: was it a Redis failure rather than a missing key
ForArch(c, fail) ==
    LET t == task[c]
        a == t.archs[t.i]
    IN /\ t.pc = "loop"
       /\ IF ~Contains(ARCHS, a)
          THEN task' = [task EXCEPT ![c] = NextArch(t, Reply("Unknown arch: {}", a))]
          ELSE IF Db_get(redis, a, fail).ok
          THEN task' = [task EXCEPT ![c] =
                           [t EXCEPT !.out = Append(t.out,
                                                Reply("Another build task is running.", "")),
                                     !.pc = "done"]]
          ELSE task' = [task EXCEPT ![c] = [t EXCEPT !.pc = "set", !.geterr = fail]]
       /\ lock' = IF task'[c].pc = "done" THEN 0 ELSE lock
       /\ http' = NoHttp
       /\ UNCHANGED <<redis, wk>>

\* a Build that names the first arch of the list whatever arch is in hand
NewBuild_of_list_head(c, a, t) ==
    Build(c, t.archs[1], IF t.cmd = "livekit" THEN Livekit ELSE Release(t.variants))

\* the Build the handler of chat c writes for arch a
NewBuild(c, a, t) ==
    Build(c, a, IF t.cmd = "livekit" THEN Livekit ELSE Release(t.variants))

\* db.set_building and the message that follows it
SetBuilding(c, fail) ==
    LET t == task[c]
        a == t.archs[t.i]
        r == Db_set_building(redis, a, NewBuild(c, a, t), fail)
    IN /\ t.pc = "set"
       /\ redis' = r.store
       /\ task' = [task EXCEPT ![c] =
                      NextArch(t, IF r.ok
                                  THEN Reply(IF t.cmd = "livekit"
                                             THEN "Building {} for livekit"
                                             ELSE "Building {} for release ({})", a)
                                  ELSE Reply("Failed to mod redis database: {}", a))]
       /\ lock' = IF task'[c].pc = "done" THEN 0 ELSE lock
       /\ http' = NoHttp
       /\ UNCHANGED wk

\* Command::Status: one line per Build that running_worker returns
StatusText(builds) ==
    [k \in DOMAIN builds |->
        [arch |-> builds[k].arch, state |-> <<"building">> \o BuildTypeDisplay(builds[k].build_type)]]

AnswerStatus(c, order, fail) ==
    LET m == Db_running_worker(redis, order, fail)
    IN /\ task[c].pc = "start"
       /\ MutexFree(lock)
       /\ task' = [task EXCEPT ![c] =
                      [IdleTask EXCEPT !.pc = "done", !.cmd = "status", !.db0 = redis,
                                       !.out = IF m.ok THEN StatusText(m.v)
                                               ELSE <<Reply("Failed to mod redis database: {}", "")>>]]
       /\ http' = NoHttp
       /\ UNCHANGED <<redis, lock, wk>>

\* the handler of chat c has returned
Return(c) ==
    /\ task[c].pc = "done"
    /\ task' = [task EXCEPT ![c] = IdleTask]
    /\ http' = NoHttp
    /\ UNCHANGED <<redis, lock, wk>>

(***************************************************************************)
(* main.rs: the HTTP endpoints.                                            *)
(***************************************************************************)
\* a secret test that lets a request without the header pass
SecretOk_unwrap_or_true(hdr) == hdr = <<>> \/ hdr[1] = Secret

\* header.get("secret").map(|x| *x == secret).unwrap_or(false); a header
\* is <<>> when absent, else <<value>>
SecretOk(hdr) == hdr # <<>> /\ hdr[1] = Secret

None == <<>>

Some(x) == <<x>>

Response(status, text, payload) == [status |-> status, text |-> text, payload |-> payload]

\* impl IntoResponse for BuildRequestError
BadSecretResponse == Response(400, <<"Bad secret.">>, <<>>)

RedisResponse == Response(500, <<"Failed to mod redis database.", ": ", "source">>, <<>>)

\* serde: enum Status as JSON
Status_to_json(st) ==
    IF st.tag = "Working" THEN <<"Working", Build_to_json(st.build)>> ELSE <<"Pending">>

Working(b) == [tag |-> "Working", build |-> b]

Pending == [tag |-> "Pending"]

\* build_is_started: the response to GET /workerisstarted?arch=
build_is_started(store, hdr, arch, fail) ==
    IF ~SecretOk(hdr) THEN BadSecretResponse
    ELSE LET build == Db_get(store, arch, fail)
         IN Response(200, <<>>, Status_to_json(IF build.ok THEN Working(build.v) ELSE Pending))

\* the fields without which serde rejects a BuildDoneRequest (log_url is an
\* Option and may be absent)
BuildDoneRequestFields == {"id", "arch", "build_type", "has_error", "push_success", "date"}

\* axum Json<BuildDoneRequest>: the extractor runs before the handler body
JsonRejected(body) == ~(BuildDoneRequestFields \subseteq DOMAIN body)

JsonRejection == Response(422, <<"Failed to deserialize the JSON body into the target type">>, <<>>)

\* the message build_done sends to ChatId(request.id)
Notification(body) ==
    [to |-> body.id,
     name |-> body.build_type.name,
     variants |-> body.build_type.variants,
     result |-> IF ~body.has_error THEN "success" ELSE "has error",
     arch |-> body.arch,
     log |-> IF "log_url" \in DOMAIN body /\ body.log_url # None
             THEN body.log_url ELSE <<"Failed to push log">>,
     push |-> body.push_success]

\* build_done that deletes the key before it tests the secret
build_done_clears_before_auth(store, hdr, body, fail) ==
    IF JsonRejected(body)
    THEN [resp |-> JsonRejection, store |-> store, notes |-> <<>>]
    ELSE LET r == Db_set_build_done(store, body.arch, fail)
         IN IF ~r.ok
            THEN [resp |-> RedisResponse, store |-> r.store, notes |-> <<>>]
            ELSE IF ~SecretOk(hdr)
            THEN [resp |-> BadSecretResponse, store |-> r.store, notes |-> <<>>]
            ELSE [resp |-> Response(200, <<>>, <<>>), store |-> r.store,
                  notes |-> <<Notification(body)>>]

\* build_done that sends the message before it clears the slot
build_done_notifies_first(store, hdr, body, fail) ==
    IF JsonRejected(body)
    THEN [resp |-> JsonRejection, store |-> store, notes |-> <<>>]
    ELSE IF ~SecretOk(hdr)
    THEN [resp |-> BadSecretResponse, store |-> store, notes |-> <<>>]
    ELSE LET r == Db_set_build_done(store, body.arch, fail)
         IN IF ~r.ok
            THEN [resp |-> RedisResponse, store |-> r.store, notes |-> <<Notification(body)>>]
            ELSE [resp |-> Response(200, <<>>, <<>>), store |-> r.store,
                  notes |-> <<Notification(body)>>]

\* build_done: the response to POST /done, the store it leaves and the
\* messages it sends
build_done(store, hdr, body, fail) ==
    IF JsonRejected(body)
    THEN [resp |-> JsonRejection, store |-> store, notes |-> <<>>]
    ELSE IF ~SecretOk(hdr)
    THEN [resp |-> BadSecretResponse, store |-> store, notes |-> <<>>]
    ELSE LET r == Db_set_build_done(store, body.arch, fail)
         IN IF ~r.ok
            THEN [resp |-> RedisResponse, store |-> r.store, notes |-> <<>>]
            ELSE [resp |-> Response(200, <<>>, <<>>), store |-> r.store,
                  notes |-> <<Notification(body)>>]

\* does the handler reach db.lock() for this request
TakesLock(op, hdr, body) ==
    IF op = "poll" THEN SecretOk(hdr) ELSE ~JsonRejected(body) /\ SecretOk(hdr)

\* the exchange as the last step served it: the response, and the request
\* when the handler got to read it (past the extractor and the secret test);
\* sent is the body the worker serialized, when the worker is the client
Exchange(op, hdr, req, resp, notes, before, fail) ==
    IF TakesLock(op, hdr, req)
    THEN [op |-> op, hdr |-> hdr, req |-> req, status |-> resp.status, text |-> resp.text,
          payload |-> resp.payload, notes |-> notes, before |-> before, failed |-> fail,
          decoded |-> TRUE, sent |-> <<>>]
    ELSE [op |-> op, hdr |-> hdr, req |-> <<>>, status |-> resp.status, text |-> resp.text,
          payload |-> resp.payload, notes |-> notes, before |-> Nil, failed |-> FALSE,
          decoded |-> op = "poll" \/ ~JsonRejected(req), sent |-> <<>>]

\* a client calls GET /workerisstarted
HttpPoll(hdr, arch, fail) ==
    /\ TakesLock("poll", hdr, [arch |-> arch]) => MutexFree(lock)
    /\ http' = Exchange("poll", hdr, [arch |-> arch],
                        build_is_started(redis, hdr, arch, fail), <<>>, redis[Key(arch)], fail)
    /\ UNCHANGED <<redis, lock, task, wk>>

\* a client calls POST /done
HttpDone(hdr, body, fail) ==
    LET r == build_done(redis, hdr, body, fail)
    IN /\ TakesLock("done", hdr, body) => MutexFree(lock)
       /\ redis' = r.store
       /\ http' = Exchange("done", hdr, body, r.resp, r.notes, redis[Key(body.arch)], fail)
       /\ UNCHANGED <<lock, task, wk>>

(***************************************************************************)
(* worker/src/main.rs: the worker process.                                 *)
(***************************************************************************)
\* libaosc::arch::get_arch_name() on the worker's host
WorkerArch == ARCHS[1]

\* serde: enum Status from JSON, with the worker's own Build and BuildType
Status_from_json(j) ==
    IF j[1] = "Working" THEN Working(Build_from_json(j[2])) ELSE Pending

\* impl From<BuildType> for BuildTypeRequest
BuildTypeRequest_from(bt) ==
    IF bt.tag = "Livekit" THEN [name |-> "livekit", variants |-> None]
    ELSE [name |-> "release", variants |-> Some(bt.variants)]

\* struct DoneRequest as the worker fills it, and so its JSON body
DoneRequest(build, success, push_success, log_url) ==
    [id |-> build.id,
     arch |-> build.arch,
     build_type |-> BuildTypeRequest_from(build.build_type),
     has_error |-> ~success,
     push_success |-> push_success,
     log_url |-> log_url]

NoBuild == Build(0, "", Livekit)

NoRetry == [i |-> 0, attempts |-> 0, slept |-> 0, outs |-> <<>>, result |-> None]

\* the worker at the call of worker() in main's loop. exit is the exit code
\* of the build script, disk the files of this iteration's log (file_name
\* holds the time, so no later iteration meets them), arg the local path
\* given to the scp in hand
IdleWorker ==
    [pc |-> "poll", build |-> NoBuild, success |-> FALSE, push_success |-> FALSE,
     queue |-> <<>>, ctx |-> "none", retry |-> NoRetry, log_url |-> None, err |-> "none",
     exit |-> 0, disk |-> {}, arg |-> <<>>]

\* main with `worker(..).await?` in the loop
EndIteration_exits(err) ==
    [IdleWorker EXCEPT !.pc = IF err = "none" THEN "sleep" ELSE "exit", !.err = err]

\* main: worker() returned (Err is logged); sleep(300 ms) is next
EndIteration(err) == [IdleWorker EXCEPT !.pc = "sleep", !.err = err]

\* sleep(Duration::from_millis(300)) in main's loop
WorkerSleep ==
    /\ wk.pc = "sleep"
    /\ wk' = [IdleWorker EXCEPT !.err = wk.err]
    /\ http' = NoHttp
    /\ UNCHANGED <<redis, lock, task>>

\* worker: GET /workerisstarted, error_for_status, resp.json::<Status>()
WorkerPoll(net, fail) ==
    LET resp == build_is_started(redis, Some(Secret), WorkerArch, fail)
        status == Status_from_json(resp.payload)
    IN /\ wk.pc = "poll"
       /\ IF net # "ok"
          THEN /\ wk' = EndIteration("poll: send")
               /\ http' = NoHttp
          ELSE /\ MutexFree(lock)
               /\ http' = Exchange("poll", Some(Secret), [arch |-> WorkerArch], resp, <<>>,
                                   redis[Key(WorkerArch)], fail)
               /\ wk' = IF resp.status # 200 THEN EndIteration("poll: status")
                        ELSE IF status.tag = "Working"
                        THEN [IdleWorker EXCEPT !.pc = "exec", !.build = status.build]
                        ELSE EndIteration("none")
       /\ UNCHANGED <<redis, lock, task>>

\* the files read_dir finds with extension iso or sha256sum after mklive
ProducedFiles == {<<>>, <<"iso">>, <<"iso", "sha256sum">>, <<"sha256sum", "iso">>}

\* the build functions with `?` on the exit status of the build script
WorkerExec_aborts_on_exit(spawned, exit0, files) ==
    /\ wk.pc = "exec"
    /\ wk.build.build_type.tag = "Release" <=> files = <<"os-dir">>
    /\ wk' = IF ~spawned \/ ~exit0 THEN EndIteration("exec: spawn")
             ELSE [wk EXCEPT !.pc = "push", !.exit = 0,
                             !.success = exit0, !.push_success = TRUE, !.queue = files]
    /\ http' = NoHttp
    /\ UNCHANGED <<redis, lock, task>>

\* build_livekit and build_release up to the first upload: git, cleanup and
\* the build script through get_output_logged; spawned = no `?` fired
WorkerExec(spawned, exit0, files) ==
    /\ wk.pc = "exec"
    /\ wk.build.build_type.tag = "Release" <=> files = <<"os-dir">>
    /\ wk' = IF ~spawned THEN EndIteration("exec: spawn")
             ELSE [wk EXCEPT !.pc = "push", !.exit = IF exit0 THEN 0 ELSE 1,
                             !.success = exit0, !.push_success = TRUE, !.queue = files]
    /\ http' = NoHttp
    /\ UNCHANGED <<redis, lock, task>>

\* the upload loop of build_livekit, the single upload of build_release,
\* and then the log upload of worker
WorkerNextUpload ==
    /\ wk.pc = "push"
    /\ wk' = IF Len(wk.queue) = 0
             THEN [wk EXCEPT !.pc = "write"]
             ELSE [wk EXCEPT !.pc = "attempt", !.ctx = "artifact", !.retry = NoRetry,
                             !.arg = <<wk.queue[1]>>]
    /\ http' = NoHttp
    /\ UNCHANGED <<redis, lock, task>>

\* format!("shipit-{}-{}-{}.txt", arch, hostname, now)
FileName == <<"shipit-", WorkerArch, "-", "hostname", "-", "now", ".txt">>

LogUrl(file_name) == <<"https://buildit.aosc.io/logs/">> \o file_name

\* Path::new("./push_failed_logs").join(&file_name)
FallbackPath(file_name) == <<"./push_failed_logs/">> \o file_name

\* the local path in the arguments of the log's scp
LogArg == <<"./log">>

\* fs::write(&file_name, logs)
WorkerWriteLog(written) ==
    /\ wk.pc = "write"
    /\ wk' = IF ~written THEN EndIteration("write log")
             ELSE [wk EXCEPT !.pc = "attempt", !.ctx = "log", !.retry = NoRetry,
                             !.disk = wk.disk \cup {FileName}, !.arg = LogArg]
    /\ http' = NoHttp
    /\ UNCHANGED <<redis, lock, task>>

\* run_logged_with_retry: `for i in 0..5`
Attempts == 5

RECURSIVE Pow2(_)
Pow2(n) == IF n = 0 THEN 1 ELSE 2 * Pow2(n - 1)

\* run_logged_with_retry with `for i in 0..=5`
run_logged_with_retry_inclusive(r, out) ==
    IF out = "ok"
    THEN [r EXCEPT !.attempts = r.attempts + 1, !.outs = Append(r.outs, out),
                   !.result = Some(TRUE)]
    ELSE [r EXCEPT !.attempts = r.attempts + 1, !.outs = Append(r.outs, out),
                   !.slept = r.slept + Pow2(r.i),
                   !.i = r.i + 1,
                   !.result = IF r.i + 1 > Attempts THEN Some(FALSE) ELSE None]

\* run_logged_with_retry with sleep(1 << (i + 1))
run_logged_with_retry_late_backoff(r, out) ==
    IF out = "ok"
    THEN [r EXCEPT !.attempts = r.attempts + 1, !.outs = Append(r.outs, out),
                   !.result = Some(TRUE)]
    ELSE [r EXCEPT !.attempts = r.attempts + 1, !.outs = Append(r.outs, out),
                   !.slept = r.slept + Pow2(r.i + 1),
                   !.i = r.i + 1,
                   !.result = IF r.i + 1 >= Attempts THEN Some(FALSE) ELSE None]

\* run_logged_with_retry: one pass of the loop body. out is what
\* get_output_logged gave: "ok" (exit 0), "nonzero" (other exit) or "err"
\* (the command could not be run); a failed pass sleeps 1 << i seconds
run_logged_with_retry(r, out) ==
    IF out = "ok"
    THEN [r EXCEPT !.attempts = r.attempts + 1, !.outs = Append(r.outs, out),
                   !.result = Some(TRUE)]
    ELSE [r EXCEPT !.attempts = r.attempts + 1, !.outs = Append(r.outs, out),
                   !.slept = r.slept + Pow2(r.i),
                   !.i = r.i + 1,
                   !.result = IF r.i + 1 >= Attempts THEN Some(FALSE) ELSE None]

Outcomes == {"ok", "nonzero", "err"}

\* one attempt of the running upload
WorkerAttempt(out) ==
    /\ wk.pc = "attempt"
    /\ wk.retry.result = None
    /\ wk' = [wk EXCEPT !.retry = run_logged_with_retry(wk.retry, out)]
    /\ http' = NoHttp
    /\ UNCHANGED <<redis, lock, task>>

\* run_logged_with_retry has returned: build_livekit keeps the result as
\* push_success and goes on with the next file, build_release returns it;
\* worker sets log_url after fs::remove_file("./log"), or logs the failure
WorkerUploaded(removed) ==
    /\ wk.pc = "attempt"
    /\ wk.retry.result # None
    /\ wk' = IF wk.ctx = "artifact"
             THEN [wk EXCEPT !.pc = "push", !.push_success = wk.retry.result[1],
                             !.queue = Tail(wk.queue)]
             ELSE IF ~wk.retry.result[1] THEN [wk EXCEPT !.pc = "fallback"]
             ELSE IF ~removed THEN EndIteration("remove ./log")
             ELSE [wk EXCEPT !.pc = "report", !.log_url = Some(LogUrl(FileName))]
    /\ http' = NoHttp
    /\ UNCHANGED <<redis, lock, task>>

\* the fallback without the copy
WorkerFallback_no_copy(copied) ==
    /\ wk.pc = "fallback"
    /\ wk' = IF ~copied THEN EndIteration("copy log") ELSE [wk EXCEPT !.pc = "report"]
    /\ http' = NoHttp
    /\ UNCHANGED <<redis, lock, task>>

\* log_url.is_none(): create_dir_all("./push_failed_logs") and fs::copy
WorkerFallback(copied) ==
    /\ wk.pc = "fallback"
    /\ wk' = IF ~copied THEN EndIteration("copy log")
             ELSE [wk EXCEPT !.pc = "report", !.disk = wk.disk \cup {FallbackPath(FileName)}]
    /\ http' = NoHttp
    /\ UNCHANGED <<redis, lock, task>>

\* the ways a request can go: answered, never delivered, answer lost
Nets == {"ok", "unsent", "lost"}

\* worker: POST /done with the DoneRequest, then error_for_status
WorkerReport(net, fail) ==
    LET body == DoneRequest(wk.build, wk.success, wk.push_success, wk.log_url)
        r == build_done(redis, Some(Secret), body, fail)
    IN /\ wk.pc = "report"
       /\ IF net = "unsent"
          THEN /\ wk' = EndIteration("report: send")
               /\ http' = NoHttp
               /\ redis' = redis
          ELSE /\ TakesLock("done", Some(Secret), body) => MutexFree(lock)
               /\ redis' = r.store
               /\ http' = [Exchange("done", Some(Secret), body, r.resp, r.notes,
                                    redis[Key(body.arch)], fail) EXCEPT !.sent = body]
               /\ wk' = EndIteration(IF net = "lost" THEN "report: send"
                                     ELSE IF r.resp.status # 200 THEN "report: status"
                                     ELSE "none")
       /\ UNCHANGED <<lock, task>>

(***************************************************************************)
(* Inputs.                                                                 *)
(***************************************************************************)
\* the arch lists operators type after /livekit and /release
ArchLists ==
    {<<>>,
     <<ARCHS[2]>>,
     <<ARCHS[1], ARCHS[2], ARCHS[3]>>,
     <<ARCHS[2], ARCHS[2]>>,
     <<ARCHS[1], UnknownArch, ARCHS[3]>>}

\* one arch at a time
SingleArchLists == {<<ARCHS[k]>> : k \in 1..3}

\* the variant lists operators type after /release
VarLists == {<<>>, <<"desktop", "base">>}

LivekitArgs(lists) == {Join(l) : l \in lists}

ReleaseArgs(lists) == {Join(v) \o <<SEMI>> \o Join(l) : v \in VarLists, l \in lists}

\* /release without the separator: the whole text is the variant list
ReleaseArgsNoArchs == {Join(v) : v \in VarLists}

\* the secret header of a request: absent, right, wrong
Hdrs == {None, Some(Secret), Some("guess")}

\* a body posted to /done, with the date field or without it
DoneBody(id, arch, ok, dated) ==
    IF dated
    THEN [id |-> id, arch |-> arch,
          build_type |-> IF ok THEN [name |-> "livekit", variants |-> None]
                         ELSE [name |-> "release", variants |-> Some(<<"desktop", "base">>)],
          has_error |-> ~ok, push_success |-> ok,
          log_url |-> IF ok THEN Some(LogUrl(FileName)) ELSE None,
          date |-> "date"]
    ELSE [id |-> id, arch |-> arch,
          build_type |-> IF ok THEN [name |-> "livekit", variants |-> None]
                         ELSE [name |-> "release", variants |-> Some(<<"desktop", "base">>)],
          has_error |-> ~ok, push_success |-> ok,
          log_url |-> IF ok THEN Some(LogUrl(FileName)) ELSE None]

(***************************************************************************)
(* Spec: the control plane with Redis available.  Every chat sends         *)
(* commands; a client holding the secret polls and reports.                *)
(***************************************************************************)
Init ==
    /\ redis = EmptyStore
    /\ lock = 0
    /\ task = [c \in Chats |-> IdleTask]
    /\ http = NoHttp
    /\ wk = IdleWorker

\* a handler that has returned is retired before anything else happens
Retired == \A c \in Chats : task[c].pc # "done"

Next ==
    \/ \E c \in Chats : Return(c)
    \/ Retired /\ \E c \in Chats : Receive(c)
    \/ Retired /\ \E c \in Chats, args \in LivekitArgs(ArchLists) \cup {<<SP>>},
                     login \in BOOLEAN : AnswerLivekit(c, args, login)
    \/ Retired /\ \E c \in Chats, args \in ReleaseArgs(ArchLists) \cup ReleaseArgsNoArchs,
                     login \in BOOLEAN : AnswerRelease(c, args, login)
    \/ Retired /\ \E c \in Chats : ForArch(c, FALSE)
    \/ Retired /\ \E c \in Chats : SetBuilding(c, FALSE)
    \/ Retired /\ \E c \in Chats, order \in Orders(LiveKeys(redis)) :
                    AnswerStatus(c, order, FALSE)
    \/ Retired /\ \E arch \in ArchNames : HttpPoll(Some(Secret), arch, FALSE)
    \/ Retired /\ \E arch \in ArchNames : HttpDone(Some(Secret), DoneBody(1, arch, TRUE, TRUE), FALSE)

Spec == Init /\ [][Next]_vars

(***************************************************************************)
(* RaceSpec: every chat sends one enqueue command naming one arch, from    *)
(* the empty store; the handlers interleave at every await.                *)
(***************************************************************************)
RaceNext ==
    \/ \E c \in Chats : Receive(c)
    \/ \E c \in Chats, args \in LivekitArgs(SingleArchLists) : AnswerLivekit(c, args, TRUE)
    \/ \E c \in Chats, args \in ReleaseArgs(SingleArchLists) : AnswerRelease(c, args, TRUE)
    \/ \E c \in Chats : ForArch(c, FALSE)
    \/ \E c \in Chats : SetBuilding(c, FALSE)

RaceSpec == Init /\ [][RaceNext]_vars

(***************************************************************************)
(* HttpSpec: any client calls the two endpoints, with any secret header;   *)
(* one chat enqueues one arch at a time and asks for the status.           *)
(* FaultSpec: the same, and any Redis command may fail.                    *)
(***************************************************************************)
ClientBodies ==
    {DoneBody(id, a, ok, dated) : id \in Chats, a \in ArchNames, ok \in BOOLEAN,
                                  dated \in BOOLEAN}

\* the chats that send commands here
Operators == {c \in Chats : c <= 1}

HttpNext ==
    \/ \E c \in Operators : Return(c)
    \/ Retired /\ \E c \in Operators : Receive(c)
    \/ Retired /\ \E c \in Operators, args \in LivekitArgs(SingleArchLists) :
                    AnswerLivekit(c, args, TRUE)
    \/ Retired /\ \E c \in Operators, args \in ReleaseArgs(SingleArchLists) : AnswerRelease(c, args, TRUE)
    \/ Retired /\ \E c \in Operators : ForArch(c, FALSE)
    \/ Retired /\ \E c \in Operators : SetBuilding(c, FALSE)
    \/ Retired /\ \E c \in Operators, order \in Orders(LiveKeys(redis)) :
                    AnswerStatus(c, order, FALSE)
    \/ Retired /\ \E hdr \in Hdrs, arch \in ArchNames : HttpPoll(hdr, arch, FALSE)
    \/ Retired /\ \E hdr \in Hdrs, body \in ClientBodies : HttpDone(hdr, body, FALSE)

HttpSpec == Init /\ [][HttpNext]_vars

FaultNext ==
    \/ \E c \in Operators : Return(c)
    \/ Retired /\ \E c \in Operators : Receive(c)
    \/ Retired /\ \E c \in Operators, args \in LivekitArgs(SingleArchLists) :
                    AnswerLivekit(c, args, TRUE)
    \/ Retired /\ \E c \in Operators, args \in ReleaseArgs(SingleArchLists) : AnswerRelease(c, args, TRUE)
    \/ Retired /\ \E c \in Operators, fail \in BOOLEAN : ForArch(c, fail)
    \/ Retired /\ \E c \in Operators, fail \in BOOLEAN : SetBuilding(c, fail)
    \/ Retired /\ \E c \in Operators, order \in Orders(LiveKeys(redis)), fail \in BOOLEAN :
                    AnswerStatus(c, order, fail)
    \/ Retired /\ \E hdr \in Hdrs, arch \in ArchNames, fail \in BOOLEAN :
                    HttpPoll(hdr, arch, fail)
    \/ Retired /\ \E hdr \in Hdrs, body \in ClientBodies, fail \in BOOLEAN :
                    HttpDone(hdr, body, fail)

FaultSpec == Init /\ [][FaultNext]_vars

(***************************************************************************)
(* WorkerSpec: one chat enqueues builds for the worker's arch and the      *)
(* worker runs, with nothing failing but builds and uploads: every request *)
(* is delivered, Redis answers, commands spawn and local files are written.*)
(***************************************************************************)
WorkerNext ==
    \/ \E c \in Operators : Return(c)
    \/ Retired /\ \E c \in Operators : Receive(c)
    \/ Retired /\ \E c \in Operators : AnswerLivekit(c, Join(<<WorkerArch>>), TRUE)
    \/ Retired /\ \E c \in Operators, args \in ReleaseArgs({<<WorkerArch>>}) :
                    AnswerRelease(c, args, TRUE)
    \/ Retired /\ \E c \in Operators : ForArch(c, FALSE)
    \/ Retired /\ \E c \in Operators : SetBuilding(c, FALSE)
    \/ Retired /\ WorkerSleep
    \/ Retired /\ WorkerPoll("ok", FALSE)
    \/ Retired /\ \E exit0 \in BOOLEAN, files \in ProducedFiles \cup {<<"os-dir">>} :
                    WorkerExec(TRUE, exit0, files)
    \/ Retired /\ WorkerNextUpload
    \/ Retired /\ \E out \in Outcomes : WorkerAttempt(out)
    \/ Retired /\ WorkerUploaded(TRUE)
    \/ Retired /\ WorkerWriteLog(TRUE)
    \/ Retired /\ WorkerFallback(TRUE)
    \/ Retired /\ WorkerReport("ok", FALSE)

WorkerSpec == Init /\ [][WorkerNext]_vars

(***************************************************************************)
(* WorkerFaultSpec: WorkerSpec where anything may fail: a request may not  *)
(* be delivered or its answer may be lost, Redis may fail, a command may   *)
(* not spawn, a local file operation may fail.                             *)
(***************************************************************************)
WorkerFaultNext ==
    \/ \E c \in Operators : Return(c)
    \/ Retired /\ \E c \in Operators : Receive(c)
    \/ Retired /\ \E c \in Operators : AnswerLivekit(c, Join(<<WorkerArch>>), TRUE)
    \/ Retired /\ \E c \in Operators, args \in ReleaseArgs({<<WorkerArch>>}) :
                    AnswerRelease(c, args, TRUE)
    \/ Retired /\ \E c \in Operators : ForArch(c, FALSE)
    \/ Retired /\ \E c \in Operators : SetBuilding(c, FALSE)
    \/ Retired /\ WorkerSleep
    \/ Retired /\ \E net \in Nets, fail \in BOOLEAN : WorkerPoll(net, fail)
    \/ Retired /\ \E spawned, exit0 \in BOOLEAN, files \in ProducedFiles \cup {<<"os-dir">>} :
                    WorkerExec(spawned, exit0, files)
    \/ Retired /\ WorkerNextUpload
    \/ Retired /\ \E out \in Outcomes : WorkerAttempt(out)
    \/ Retired /\ \E removed \in BOOLEAN : WorkerUploaded(removed)
    \/ Retired /\ \E written \in BOOLEAN : WorkerWriteLog(written)
    \/ Retired /\ \E copied \in BOOLEAN : WorkerFallback(copied)
    \/ Retired /\ \E net \in Nets, fail \in BOOLEAN : WorkerReport(net, fail)

WorkerFaultSpec == Init /\ [][WorkerFaultNext]_vars

(***************************************************************************)
(* Properties.                                                             *)
(***************************************************************************)
AlreadyBuilding == Reply("Another build task is running.", "")

Built(t, a) ==
    Reply(IF t.cmd = "livekit" THEN "Building {} for livekit"
          ELSE "Building {} for release ({})", a)

LastReply(t) == t.out[Len(t.out)]

\* the handler has gone past the arm's preamble into the loop over archs
Enqueues(t) == (t.cmd = "livekit" /\ t.login) \/ t.cmd = "release"

C2_ExactlyOneWinner ==
    \A a \in Range(ARCHS) :
        LET T == {c \in Chats : task[c].pc = "done" /\ task[c].archs = <<a>>}
            W == {c \in T : task[c].out = <<Built(task[c], a)>>}
        IN T # {} =>
             /\ Cardinality(W) = 1
             /\ \A c \in T \ W : task[c].out = <<AlreadyBuilding>>
             /\ \A w \in W : redis[Key(a)] = Build_to_json(NewBuild(w, a, task[w]))

\* every chat asked for the same arch while the winner held the mutex, with
\* both commands among them
C2_Witness ==
    \E a \in Range(ARCHS), w \in Chats :
        /\ \A c \in Chats : task[c].pc = "done" /\ task[c].archs = <<a>>
        /\ task[w].rivals = Chats \ {w}
        /\ task[w].out = <<Built(task[w], a)>>
        /\ \E c \in Chats : task[c].cmd # task[w].cmd

\* Enqueue as the contract words it: the archs in the order given, an
\* unknown one answered and passed over, a free one given its record, and
\* the whole operation over at the first busy one
RECURSIVE BatchResult(_, _, _, _, _)
BatchResult(store, archs, k, c, t) ==
    IF k > Len(archs) THEN [store |-> store, out |-> <<>>]
    ELSE LET a == archs[k]
         IN IF a \notin Range(ARCHS)
            THEN LET r == BatchResult(store, archs, k + 1, c, t)
                 IN [store |-> r.store, out |-> <<Reply("Unknown arch: {}", a)>> \o r.out]
            ELSE IF store[Key(a)] # Nil
            THEN [store |-> store, out |-> <<AlreadyBuilding>>]
            ELSE LET r == BatchResult([store EXCEPT ![Key(a)] = Build_to_json(NewBuild(c, a, t))],
                                      archs, k + 1, c, t)
                 IN [store |-> r.store, out |-> <<Built(t, a)>> \o r.out]

\* C3: a batch is applied in the order given and is not atomic: when the
\* handler returns, the store and the replies are those of processing the
\* archs one by one up to the first busy one; for [A, B, C] with only B busy
\* that is a record for A, "Another build task is running." at B, B's record
\* as it was and none for C.
C3_BatchInOrderNotAtomic ==
    \A c \in Chats :
        (task[c].pc = "done" /\ Enqueues(task[c])) =>
            LET t == task[c]
                r == BatchResult(t.db0, t.archs, 1, c, t)
            IN /\ redis = r.store
               /\ t.out = r.out
               /\ (/\ Len(t.archs) = 3
                   /\ \A k \in 1..3 : t.archs[k] \in Range(ARCHS)
                   /\ t.archs[1] # t.archs[2] /\ t.archs[2] # t.archs[3]
                   /\ t.archs[1] # t.archs[3]
                   /\ t.db0[Key(t.archs[1])] = Nil
                   /\ t.db0[Key(t.archs[2])] # Nil
                   /\ t.db0[Key(t.archs[3])] = Nil)
                  => /\ t.out = <<Built(t, t.archs[1]), AlreadyBuilding>>
                     /\ redis[Key(t.archs[1])] = Build_to_json(NewBuild(c, t.archs[1], t))
                     /\ redis[Key(t.archs[2])] = t.db0[Key(t.archs[2])]
                     /\ redis[Key(t.archs[3])] = Nil

\* the batch [A, B, C] has returned, with only B busy when it began
C3_Witness ==
    \E c \in Chats :
        /\ task[c].pc = "done"
        /\ Enqueues(task[c])
        /\ task[c].archs = <<ARCHS[1], ARCHS[2], ARCHS[3]>>
        /\ task[c].db0[Key(ARCHS[1])] = Nil
        /\ task[c].db0[Key(ARCHS[2])] # Nil
        /\ task[c].db0[Key(ARCHS[3])] = Nil
        /\ Len(task[c].out) = 2

(***************************************************************************)
(* WorkerLiveSpec: WorkerSpec where a handler that can go on does, and the *)
(* worker, a process of its own whose requests queue for the mutex in      *)
(* arrival order, is not passed over forever by new commands.              *)
(***************************************************************************)
HandlerStep ==
    \/ \E c \in Operators : Return(c)
    \/ Retired /\ \E c \in Operators : ForArch(c, FALSE)
    \/ Retired /\ \E c \in Operators : SetBuilding(c, FALSE)

WorkerStep ==
    \/ Retired /\ WorkerSleep
    \/ Retired /\ WorkerPoll("ok", FALSE)
    \/ Retired /\ \E exit0 \in BOOLEAN, files \in ProducedFiles \cup {<<"os-dir">>} :
                    WorkerExec(TRUE, exit0, files)
    \/ Retired /\ WorkerNextUpload
    \/ Retired /\ \E out \in Outcomes : WorkerAttempt(out)
    \/ Retired /\ WorkerUploaded(TRUE)
    \/ Retired /\ WorkerWriteLog(TRUE)
    \/ Retired /\ WorkerFallback(TRUE)
    \/ Retired /\ WorkerReport("ok", FALSE)

WorkerLiveSpec == WorkerSpec /\ WF_vars(HandlerStep) /\ SF_vars(WorkerStep)

\* C4: with nothing failing but builds and uploads, a record for the
\* worker's arch leads to the report endpoint accepting the worker's
\* report: the record is cleared and one notification goes to the requester.
C4_RecordLeadsToAcceptedReport ==
    (redis[Key(WorkerArch)] # Nil)
        ~> (/\ http.op = "done"
            /\ http.status = 200
            /\ redis[Key(WorkerArch)] = Nil
            /\ Len(http.notes) = 1)

\* C5: a call to either endpoint whose secret header is missing or wrong has
\* no effect: the store, the mutex and the handlers are as they were, no
\* record and no message leaves the server, the answer does not hold the
\* secret, and a request that reaches the handler is answered 400
\* "Bad secret.".
C5_BadSecretNoEffect ==
    [][(http'.op # "none" /\ http'.hdr # Some(Secret)) =>
          /\ redis' = redis
          /\ lock' = lock
          /\ task' = task
          /\ http'.notes = <<>>
          /\ http'.payload = <<>>
          /\ ~Contains(http'.text, Secret)
          /\ http'.status # 200
          /\ http'.decoded => (http'.status = 400 /\ http'.text = <<"Bad secret.">>)
      ]_vars

\* a report with a wrong secret was refused while the store held the record
\* it names and a handler held the mutex
C5_Witness ==
    /\ http.op = "done"
    /\ http.hdr = Some("guess")
    /\ http.decoded
    /\ http.status = 400
    /\ lock # 0
    /\ LiveKeys(redis) # {}

\* C6: an authenticated poll for arch a answers Working with the stored
\* record exactly when the store holds one under a, and Pending otherwise;
\* it leaves the whole store as it was.
C6_PollReflectsRegistry ==
    [][(http'.op = "poll" /\ http'.hdr = Some(Secret)) =>
          /\ redis' = redis
          /\ http'.status = 200
          /\ Status_from_json(http'.payload) =
                IF redis[Key(http'.req.arch)] # Nil
                THEN Working(Build_from_json(redis[Key(http'.req.arch)]))
                ELSE Pending
      ]_vars

\* a poll answered Working for one arch while another arch had a record too
C6_Witness ==
    /\ http.op = "poll"
    /\ http.hdr = Some(Secret)
    /\ http.payload # <<>>
    /\ http.payload[1] = "Working"
    /\ http.req.arch # ARCHS[1]
    /\ http.payload[2] = redis[Key(http.req.arch)]
    /\ Cardinality(LiveKeys(redis)) > 1

\* C7: an authenticated report clears the slot of its arch and sends one
\* message, to the id the request carries, whether or not the slot held a
\* record; when the DEL fails nothing is sent and the store is as it was.
C7_ReportClearsThenNotifies ==
    [][(http'.op = "done" /\ http'.hdr = Some(Secret) /\ http'.decoded) =>
          IF http'.failed
          THEN /\ http'.notes = <<>>
               /\ http'.status # 200
               /\ redis' = redis
          ELSE /\ http'.status = 200
               /\ redis' = [redis EXCEPT ![Key(http'.req.arch)] = Nil]
               /\ Len(http'.notes) = 1
               /\ http'.notes[1].to = http'.req.id
               /\ http'.notes[1].arch = http'.req.arch
      ]_vars

\* a report for an arch without a record was answered 200 with its message,
\* addressed to a chat that asked for nothing
C7_Witness ==
    /\ http.op = "done"
    /\ http.hdr = Some(Secret)
    /\ http.status = 200
    /\ http.before = Nil
    /\ Len(http.notes) = 1
    /\ http.notes[1].to = http.req.id
    /\ http.req.id \notin Operators

\* C8: from every store and for every arch, DEL once, DEL twice and DEL of
\* an absent key return no error, leave no record under the arch and leave
\* every other key as it was.
C8_ClearIdempotent ==
    \A a \in ArchNames :
        LET once == Db_set_build_done(redis, a, FALSE)
            twice == Db_set_build_done(once.store, a, FALSE)
        IN /\ once.ok /\ twice.ok
           /\ once.store[Key(a)] = Nil
           /\ twice.store = once.store
           /\ \A k \in Keys \ {Key(a)} : once.store[k] = redis[k]

\* a report has cleared a slot that held nothing while another arch held a
\* record
C8_Witness ==
    /\ http.op = "done"
    /\ http.status = 200
    /\ http.before = Nil
    /\ redis[Key(http.req.arch)] = Nil
    /\ LiveKeys(redis) # {}

\* C9: the answer to /status has one entry for every arch of ARCHS:
\* "building <kind>" where the store holds a record and "idle" where it
\* holds none.
C9_StatusListsEveryArch ==
    \A c \in Chats :
        (task[c].pc = "done" /\ task[c].cmd = "status") =>
            /\ Len(task[c].out) = Len(ARCHS)
            /\ \A k \in 1..Len(ARCHS) :
                  \E j \in 1..Len(task[c].out) :
                      /\ task[c].out[j].arch = ARCHS[k]
                      /\ task[c].out[j].state =
                            IF task[c].db0[Key(ARCHS[k])] # Nil
                            THEN <<"building">> \o
                                 BuildTypeDisplay(Build_from_json(task[c].db0[Key(ARCHS[k])]).build_type)
                            ELSE <<"idle">>

\* C10: the retry loop ends with a boolean whatever the attempts gave: it
\* never makes more than 5 attempts, goes on only while every attempt so far
\* failed, ends with false after exactly 5 failed attempts, and ends with
\* true right after the first attempt that succeeded.
C10_RetryBounded ==
    LET r == wk.retry
    IN /\ r.attempts = Len(r.outs)
       /\ r.attempts <= 5
       /\ r.result \in {None, Some(TRUE), Some(FALSE)}
       /\ r.result = None => (r.attempts < 5 /\ \A k \in 1..r.attempts : r.outs[k] # "ok")
       /\ r.result = Some(FALSE) =>
             (r.attempts = 5 /\ \A k \in 1..r.attempts : r.outs[k] # "ok")
       /\ r.result = Some(TRUE) =>
             /\ r.attempts \in 1..5
             /\ r.outs[r.attempts] = "ok"
             /\ \A k \in 1..(r.attempts - 1) : r.outs[k] # "ok"

\* five attempts failed, some by exit code and some for want of the command,
\* and the loop returned false
C10_Witness ==
    /\ wk.retry.result = Some(FALSE)
    /\ wk.retry.attempts = 5
    /\ \E j, k \in 1..5 : wk.retry.outs[j] = "err" /\ wk.retry.outs[k] = "nonzero"

\* C11: the sleep after failed attempt i (counted from 0) is 2^i seconds:
\* the loop has slept 1, 3, 7 and 15 seconds in all when it makes attempts
\* 2, 3, 4 and 5 (so the single sleeps are 1, 2, 4, 8 and at last 16, none
\* longer), and it has slept 31 when it returns false; a success adds no
\* sleep.
C11_BackoffSchedule ==
    LET r == wk.retry
        failed == Cardinality({k \in 1..Len(r.outs) : r.outs[k] # "ok"})
    IN /\ failed \in 0..5
       /\ r.slept = <<0, 1, 3, 7, 15, 31>>[failed + 1]
       /\ (r.result = None /\ r.attempts = 4) => r.slept = 15
       /\ r.result = Some(FALSE) => r.slept = 31

\* the loop has failed five times and returned false
C11_Witness ==
    /\ wk.retry.result = Some(FALSE)
    /\ wk.retry.slept = 31
    /\ wk.retry.attempts = 5

\* C12: when every command can be run and every file operation succeeds,
\* the build script's exit code does not end the iteration: the worker goes
\* from the build to the uploads and on to the report with the same build
\* and exit code, and the body it posts has has_error = true exactly when
\* the code was not 0, for the record it polled.
C12_NonZeroExitStillReports ==
    [][/\ (wk.pc = "exec" /\ wk' # wk) =>
             /\ wk'.pc = "push"
             /\ wk'.build = wk.build
             /\ wk'.success = (wk'.exit = 0)
       /\ (wk.pc \in {"push", "attempt", "write", "fallback"} /\ wk' # wk) =>
             /\ wk'.pc \in {"push", "attempt", "write", "fallback", "report"}
             /\ wk'.build = wk.build
             /\ wk'.exit = wk.exit
             /\ wk'.success = wk.success
       /\ (wk.pc = "report" /\ wk' # wk) =>
             /\ http'.op = "done"
             /\ http'.hdr = Some(Secret)
             /\ http'.sent.has_error = (wk.exit # 0)
             /\ http'.sent.id = wk.build.id
             /\ http'.sent.arch = wk.build.arch
      ]_vars

\* the worker has posted has_error = true for a release build whose script
\* exited with a code other than 0
C12_Witness ==
    /\ http.op = "done"
    /\ http.sent # <<>>
    /\ http.sent.has_error
    /\ http.sent.build_type.name = "release"
    /\ http.sent.build_type.variants = Some(<<"desktop", "base">>)
    /\ http.sent.arch = WorkerArch

\* C13: the worker posts its report only when the log file is written and
\* the log upload has returned; the body's log_url is present exactly when
\* the upload returned true; after an upload that gave up (5 attempts) the
\* copy in ./push_failed_logs exists before the report; and giving up leads
\* to the fallback and from there, unless the copy itself fails, to the
\* report.
C13_ReportAfterLogHandled ==
    [][/\ (http'.op = "done" /\ http'.sent # <<>>) =>
             /\ wk.pc = "report"
             /\ FileName \in wk.disk
             /\ wk.ctx = "log"
             /\ wk.retry.result # None
             /\ (http'.sent.log_url # None) <=> (wk.retry.result = Some(TRUE))
             /\ wk.retry.result = Some(FALSE) =>
                   (wk.retry.attempts = 5 /\ FallbackPath(FileName) \in wk.disk)
       /\ (wk.pc = "attempt" /\ wk.ctx = "log" /\ wk.retry.result = Some(FALSE) /\ wk' # wk) =>
             wk'.pc = "fallback"
       /\ (wk.pc = "fallback" /\ wk' # wk) =>
             \/ wk'.pc = "report" /\ FallbackPath(FileName) \in wk'.disk
             \/ wk'.pc = "sleep" /\ wk'.err = "copy log"
      ]_vars

\* a report without log_url has been posted, after the log upload gave up
C13_Witness ==
    /\ http.op = "done"
    /\ http.sent # <<>>
    /\ http.sent.log_url = None
    /\ wk.pc = "sleep"
    /\ wk.err \in {"none", "report: status"}

(***************************************************************************)
(* WorkerFaultLiveSpec: WorkerFaultSpec with the fairness of WorkerLiveSpec.*)
(***************************************************************************)
WorkerFaultStep ==
    \/ Retired /\ WorkerSleep
    \/ Retired /\ \E net \in Nets, fail \in BOOLEAN : WorkerPoll(net, fail)
    \/ Retired /\ \E spawned, exit0 \in BOOLEAN, files \in ProducedFiles \cup {<<"os-dir">>} :
                    WorkerExec(spawned, exit0, files)
    \/ Retired /\ WorkerNextUpload
    \/ Retired /\ \E out \in Outcomes : WorkerAttempt(out)
    \/ Retired /\ \E removed \in BOOLEAN : WorkerUploaded(removed)
    \/ Retired /\ \E written \in BOOLEAN : WorkerWriteLog(written)
    \/ Retired /\ \E copied \in BOOLEAN : WorkerFallback(copied)
    \/ Retired /\ \E net \in Nets, fail \in BOOLEAN : WorkerReport(net, fail)

WorkerFaultLiveSpec ==
    WorkerFaultSpec /\ WF_vars(HandlerStep) /\ SF_vars(WorkerFaultStep)

\* C14: whatever fails in an iteration, the worker polls again: from every
\* state there is a later step in which the worker issues its poll.
C14_AlwaysPollsAgain ==
    []<><<wk.pc = "poll" /\ wk'.pc # "poll">>_vars

\* an iteration has ended with an error and the worker is back at its poll
C14_Witness ==
    /\ wk.pc = "poll"
    /\ wk.err = "report: status"

\* C15: a failing Redis command fails the operation it serves: an enqueue
\* whose GET failed writes nothing and does not answer "Building", and a
\* report whose DEL failed is answered with an error and clears nothing.
C15_RegistryFailureSurfaced ==
    [][/\ \A c \in Chats :
             (task[c].pc = "set" /\ task[c].geterr /\ task'[c] # task[c]) =>
                 /\ redis' = redis
                 /\ LastReply(task'[c]) # Built(task[c], task[c].archs[task[c].i])
       /\ (http'.op = "done" /\ http'.hdr = Some(Secret) /\ http'.decoded /\ http'.failed) =>
             /\ http'.status # 200
             /\ redis' = redis
      ]_vars

\* C16: an arch that is not in ARCHS is answered "Unknown arch" and passed
\* over: the step changes no key, the handler goes on with the next arch of
\* the list, and no key of an unknown arch ever holds a record.
C16_UnknownArchSkipped ==
    [][/\ \A c \in Chats :
             (/\ task[c].pc = "loop"
              /\ task[c].archs[task[c].i] \notin Range(ARCHS)
              /\ task'[c] # task[c]) =>
                 /\ redis' = redis
                 /\ LastReply(task'[c]) = Reply("Unknown arch: {}", task[c].archs[task[c].i])
                 /\ task'[c].i = task[c].i + 1
                 /\ task'[c].pc = IF task[c].i < Len(task[c].archs) THEN "loop" ELSE "done"
       /\ \A a \in ArchNames \ Range(ARCHS) : redis'[Key(a)] = Nil
      ]_vars

\* a batch with an unknown arch in the middle has built the arch after it
C16_Witness ==
    \E c \in Chats :
        /\ task[c].pc = "done"
        /\ task[c].archs = <<ARCHS[1], UnknownArch, ARCHS[3]>>
        /\ Len(task[c].out) = 3
        /\ task[c].out[2] = Reply("Unknown arch: {}", UnknownArch)
        /\ task[c].out[3] = Built(task[c], ARCHS[3])
        /\ redis[Key(ARCHS[3])] = Build_to_json(NewBuild(c, ARCHS[3], task[c]))
        /\ redis[Key(UnknownArch)] = Nil

\* C17: the record an enqueue writes comes back as written: Db::get on the
\* arch, and the worker's decoding of the poll's answer, give the Build the
\* handler built (id, arch, kind, variants in their order); and the Build
\* the worker takes from a poll encodes to the text the store holds.
C17_RecordRoundTrip ==
    [][/\ \A a \in ArchNames :
             (redis'[Key(a)] # redis[Key(a)] /\ redis'[Key(a)] # Nil) =>
                 \E c \in Chats :
                     /\ task[c].pc = "set"
                     /\ task[c].archs[task[c].i] = a
                     /\ Db_get(redis', a, FALSE) = Ok(NewBuild(c, a, task[c]))
                     /\ Status_from_json(
                            build_is_started(redis', Some(Secret), a, FALSE).payload)
                          = Working(NewBuild(c, a, task[c]))
       /\ (wk.pc = "poll" /\ wk'.pc = "exec") =>
             /\ Build_to_json(wk'.build) = redis[Key(WorkerArch)]
             /\ wk'.build.arch = WorkerArch
             /\ wk'.build.id \in Chats
      ]_vars

\* the worker holds a release build with two variants in the order typed
C17_Witness ==
    /\ wk.pc = "exec"
    /\ wk.build.build_type = Release(<<"desktop", "base">>)
    /\ wk.build.arch = WorkerArch
    /\ wk.build.id \in Operators
    /\ redis[Key(WorkerArch)] = Build_to_json(wk.build)

\* C18: every Release record in the store has at least one variant.
C18_ReleaseHasVariants ==
    \A k \in Keys :
        (redis[k] # Nil /\ Build_from_json(redis[k]).build_type.tag = "Release") =>
            Len(Build_from_json(redis[k]).build_type.variants) > 0

C20_FailedReportNotRetried ==
    [][(/\ wk.pc = "poll"
        /\ wk.err \in {"write log", "remove ./log", "copy log",
                       "report: send", "report: status"}
        /\ wk' # wk)
       => wk'.pc # "exec"
      ]_vars

\* C21: an accepted report empties a key only when the record under it is
\* the one the report was made for: the record's id, kind and variants are
\* those the report carries.
C21_ReportClearsOwnJob ==
    [][(/\ http'.op = "done"
        /\ http'.hdr = Some(Secret)
        /\ http'.decoded
        /\ redis[Key(http'.req.arch)] # Nil
        /\ redis'[Key(http'.req.arch)] = Nil)
       => /\ Build_from_json(redis[Key(http'.req.arch)]).id = http'.req.id
          /\ BuildTypeRequest_from(Build_from_json(redis[Key(http'.req.arch)]).build_type)
               = http'.req.build_type
      ]_vars

\* C22: push_success stays true only while every upload of the build has
\* returned true: after each artifact upload it is its former value and the
\* upload's result, whatever the order of the files, and the report carries
\* the value so reached.
C22_PushSuccessMeansAll ==
    [][/\ (wk.pc = "attempt" /\ wk.ctx = "artifact" /\ wk'.pc = "push") =>
             wk'.push_success = (wk.push_success /\ wk.retry.result[1])
       /\ (wk.pc = "report" /\ wk' # wk) =>
             http'.sent.push_success = wk.push_success
      ]_vars

\* C23: the file given to the log's scp is the file the log was written
\* to, so that a log_url names a file that was sent: while the log upload
\* runs and after it, up to the report, the path handed to scp is file_name
\* and that file is on disk.
C23_UploadsPersistedLog ==
    (wk.ctx = "log" /\ wk.pc \in {"attempt", "fallback", "report"}) =>
        /\ FileName \in wk.disk
        /\ wk.arg = FileName

\* C24: whenever a record is written under the key of arch a, it names a
\* and the chat whose handler wrote it; so the Build a worker for a decodes
\* from its poll, and the body it makes of it, name a and that chat, and the
\* message made of such a body is addressed to that chat.
C24_KeyRecordConsistent ==
    [][\A a \in ArchNames :
          (redis'[Key(a)] # redis[Key(a)] /\ redis'[Key(a)] # Nil) =>
              LET b == Build_from_json(redis'[Key(a)])
                  polled == Status_from_json(
                                build_is_started(redis', Some(Secret), a, FALSE).payload).build
                  body == DoneRequest(polled, TRUE, TRUE, None)
              IN /\ b.arch = a
                 /\ body.arch = a
                 /\ body.id = b.id
                 /\ Notification(body).to = b.id
                 /\ \E c \in Chats :
                        /\ task[c].pc = "set"
                        /\ task'[c] # task[c]
                        /\ task[c].archs[task[c].i] = a
                        /\ b.id = c
      ]_vars

\* two archs hold records written for two different chats
C24_Witness ==
    \E a1, a2 \in Range(ARCHS) :
        /\ a1 # a2
        /\ redis[Key(a1)] # Nil
        /\ redis[Key(a2)] # Nil
        /\ Build_from_json(redis[Key(a1)]).arch = a1
        /\ Build_from_json(redis[Key(a2)]).arch = a2
        /\ Build_from_json(redis[Key(a1)]).id # Build_from_json(redis[Key(a2)]).id

\* C25: a handler of either enqueue command whose requester is not logged
\* in leaves the store as it is, whichever kind of build it asks for.
C25_LoginGatesEnqueue ==
    [][\A c \in Chats :
          (/\ task[c].cmd \in {"livekit", "release"}
           /\ ~task[c].login
           /\ task'[c] # task[c])
          => redis' = redis ]_vars

====
